---- MODULE Spec2Model ----
(***************************************************************************)
(* raggedy: LLM-only RAG over a directory of Markdown / AsciiDoc files.    *)
(*                                                                         *)
(* Text is modelled as sequences of one-character strings, so that the     *)
(* regular expressions, JSON.parse, String.prototype.includes and the      *)
(* outline templates are computed character by character as the code does. *)
(***************************************************************************)
EXTENDS Integers, Sequences, FiniteSets, TLC

VARIABLES
    args,           \* Deno.args after parseArgs: the positional arguments
    dir,            \* the directory argument the entry point settled on
    fs,             \* the directory walked by getIndex: files in walk order
    pc,             \* position of the two-stage entry point (main.ts 483-503)
    index,          \* Doc[] returned by getIndex
    response,       \* result.content of the selector's askClaude call
    paths,          \* JSON.parse(result.content) in retrieve
    docs,           \* retrieved.docs
    err,            \* the exception that aborted the invocation, or "none"
    selectorCalls,  \* askClaude calls issued by retrieve
    answerCalls,    \* askClaude calls issued by getAnswer
    answerDocs,     \* relevantDocs handed to getAnswer
    rendered,       \* markdown handed to renderMd, in call order
    costIn,         \* input of a cost computation: engine, model, usage
    cost,           \* its result (units of 1e-10 USD), -1 before it ran
    outlineIn,      \* input of an outline encoding: encoder and Doc
    outline,        \* the rendered block, <<>> before it ran
    inflight,       \* model calls issued and not yet settled
    rendering,      \* titles whose glow process is still running
    shown,          \* titles whose rendering has completed, in that order
    events,         \* the events runQuery has consumed from query(), in order
    finalAnswer,    \* finalAnswer of runQuery
    tokens          \* the four usage totals of runQuery

\* the state of the asynchronous activities: model calls and renderers
asyncVars == <<inflight, rendering, shown>>

\* the state of runQuery
queryVars == <<events, finalAnswer, tokens>>

vars == <<args, dir, fs, pc, index, response, paths, docs, err, selectorCalls,
          answerCalls, answerDocs, rendered, costIn, cost, outlineIn, outline,
          inflight, rendering, shown, events, finalAnswer, tokens>>

-----------------------------------------------------------------------------
(* Bounds of the model *)

\* longest file content enumerated exhaustively for getIndex
MaxLen == 5

\* most files in an enumerated corpus of the pipeline
MaxFiles == 5

\* largest token count of a usage record, in hundreds of tokens
MaxTok == 10

-----------------------------------------------------------------------------
(* Strings *)

\* Array.prototype.join
RECURSIVE Join(_, _)
Join(ss, sep) ==
    IF ss = <<>> THEN <<>>
    ELSE IF Len(ss) = 1 THEN ss[1]
    ELSE ss[1] \o sep \o Join(Tail(ss), sep)

\* s.startsWith(t, p) with p counted from 1
StartsAt(s, t, p) ==
    /\ p >= 1
    /\ p + Len(t) - 1 <= Len(s)
    /\ \A k \in 1..Len(t) : s[p + k - 1] = t[k]

EndsWith(s, t) == Len(t) <= Len(s) /\ StartsAt(s, t, Len(s) - Len(t) + 1)

\* s.indexOf(t, from) counted from 1; 0 when t does not occur
IndexOf(s, t, from) ==
    LET hits == {p \in from..(Len(s) - Len(t) + 1) : StartsAt(s, t, p)}
    IN  IF hits = {} THEN 0 ELSE CHOOSE p \in hits : \A q \in hits : p <= q

\* String.prototype.includes
StrIncludes(s, t) == IndexOf(s, t, 1) > 0

\* \s of the regular expressions and of String.prototype.trim
IsWS(c) == c \in {" ", "\n", "\t", "\r"}

\* line terminators: what '.' does not match and what '^' (flag m) follows
IsLT(c) == c \in {"\n", "\r"}

\* String.prototype.trim
Trim(s) ==
    LET keep == {p \in 1..Len(s) : ~IsWS(s[p])}
    IN  IF keep = {} THEN <<>>
        ELSE SubSeq(s, CHOOSE p \in keep : \A q \in keep : p <= q,
                       CHOOSE p \in keep : \A q \in keep : q <= p)

\* content.slice(0, n)
Slice0(s, n) == SubSeq(s, 1, IF Len(s) < n THEN Len(s) ELSE n)

\* the lines of a text (split at "\n")
RECURSIVE Lines(_)
Lines(s) ==
    LET nl == IndexOf(s, <<"\n">>, 1)
    IN  IF nl = 0 THEN <<s>>
        ELSE <<SubSeq(s, 1, nl - 1)>> \o Lines(SubSeq(s, nl + 1, Len(s)))

Range(f) == {f[k] : k \in DOMAIN f}

Ext_md   == <<".", "m", "d">>
Ext_adoc == <<".", "a", "d", "o", "c">>

-----------------------------------------------------------------------------
(* Corpus Indexer: getIndex *)

\* head = content.slice(0, 500); the budget is scaled down so that contents
\* longer than the budget occur within MaxLen
HeadBudget == 3

\* the character classes of the heading patterns: the header character h,
\* \s, and '.'
InClass(c, cls, h) ==
    CASE cls = "h"   -> c = h
      [] cls = "s"   -> IsWS(c)
      [] cls = "dot" -> ~IsLT(c)

\* length of the longest run of characters of class cls starting at p
RECURSIVE RunLen(_, _, _, _)
RunLen(s, p, cls, h) ==
    IF p > Len(s) \/ ~InClass(s[p], cls, h) THEN 0
    ELSE 1 + RunLen(s, p + 1, cls, h)

\* '^' under flag m
LineStart(s, p) == p = 1 \/ IsLT(s[p - 1])

\* /^h+\s+.*/ tried at position p: the position after the match, 0 for no
\* match.  Every quantifier is greedy and none has to give back: after the
\* longest run of h only whitespace can follow, and '.*' accepts the empty
\* string after the longest run of whitespace.
MatchEnd(s, p, h) ==
    LET n1 == RunLen(s, p, "h", h)
        n2 == RunLen(s, p + n1, "s", h)
        n3 == RunLen(s, p + n1 + n2, "dot", h)
    IN  IF LineStart(s, p) /\ n1 >= 1 /\ n2 >= 1 THEN p + n1 + n2 + n3 ELSE 0

\* content.match(/^h+\s+.*/gm): the matches as [from, to), leftmost first,
\* each search resuming at the end of the previous match
RECURSIVE MatchAll(_, _, _)
MatchAll(s, from, h) ==
    LET hits == {p \in from..Len(s) : MatchEnd(s, p, h) > 0}
    IN  IF hits = {} THEN <<>>
        ELSE LET p == CHOOSE x \in hits : \A y \in hits : x <= y
             IN  <<[from |-> p, to |-> MatchEnd(s, p, h)]>>
                    \o MatchAll(s, MatchEnd(s, p, h), h)

HeadingPatternSwapped(path) == IF EndsWith(path, Ext_adoc) THEN "#" ELSE "="

\* path.endsWith('.adoc') ? /^=+\s+.*/gm : /^#+\s+.*/gm
HeadingPattern(path) == IF EndsWith(path, Ext_adoc) THEN "=" ELSE "#"

\* content.match(headingPattern)?.map((h) => h.trim()) || []
Headings(path, content) ==
    LET ms == MatchAll(content, 1, HeadingPattern(path))
    IN  [k \in 1..Len(ms) |-> Trim(SubSeq(content, ms[k].from, ms[k].to - 1))]

\* the Doc built for one walked file
MakeDoc(f) ==
    [relPath  |-> f.path,
     content  |-> f.content,
     head     |-> Slice0(f.content, HeadBudget),
     headings |-> Headings(f.path, f.content)]

\* Array.fromAsync(files, ...): one Doc per walked file, in walk order
getIndex(files) == [k \in 1..Len(files) |-> MakeDoc(files[k])]

\* getIndex of main.ts: the same, the headings joined into one string
getIndexJoined(files) ==
    [k \in 1..Len(files) |->
        [MakeDoc(files[k]) EXCEPT !.headings = Join(@, <<"\n">>)]]

-----------------------------------------------------------------------------
(* JSON.parse, for the JSON without escapes, fractions and exponents:        *)
(* whitespace, strings, non-negative integers, null, true, false, arrays and *)
(* objects.  A value is [t, v] with v always a sequence: the characters of a *)
(* string or number, the elements of an array, the <<key, value>> members of *)
(* an object.                                                                *)

CharAt(s, i) == IF i \in 1..Len(s) THEN s[i] ELSE "EOF"

Digits == {"0", "1", "2", "3", "4", "5", "6", "7", "8", "9"}

JVal(t, v) == [t |-> t, v |-> v]

ParseFail == [ok |-> FALSE, val |-> JVal("none", <<>>), next |-> 0]

ParseOk(val, next) == [ok |-> TRUE, val |-> val, next |-> next]

RECURSIVE SkipWS(_, _)
SkipWS(s, i) == IF IsWS(CharAt(s, i)) THEN SkipWS(s, i + 1) ELSE i

\* a string whose opening quote is at i
ParseString(s, i) ==
    LET close == IndexOf(s, <<"\"">>, i + 1)
        body  == SubSeq(s, i + 1, close - 1)
    IN  IF close = 0 \/ \E k \in 1..Len(body) : body[k] \in {"\\", "\n", "\t", "\r"}
        THEN ParseFail
        ELSE ParseOk(JVal("str", body), close + 1)

RECURSIVE DigitRun(_, _)
DigitRun(s, i) == IF CharAt(s, i) \in Digits THEN 1 + DigitRun(s, i + 1) ELSE 0

ParseNumber(s, i) ==
    LET n == DigitRun(s, i)
    IN  IF n > 1 /\ s[i] = "0" THEN ParseOk(JVal("num", <<"0">>), i + 1)
        ELSE ParseOk(JVal("num", SubSeq(s, i, i + n - 1)), i + n)

ParseLiteral(s, i, word, t) ==
    IF StartsAt(s, word, i) THEN ParseOk(JVal(t, <<>>), i + Len(word))
    ELSE ParseFail

RECURSIVE ParseValue(_, _)
RECURSIVE ParseElems(_, _, _)
RECURSIVE ParseMembers(_, _, _)

\* the value starting at or after i (leading whitespace skipped)
ParseValue(s, i) ==
    LET j == SkipWS(s, i)
        c == CharAt(s, j)
    IN  CASE c = "\"" -> ParseString(s, j)
          [] c = "["  -> IF CharAt(s, SkipWS(s, j + 1)) = "]"
                         THEN ParseOk(JVal("arr", <<>>), SkipWS(s, j + 1) + 1)
                         ELSE ParseElems(s, j + 1, <<>>)
          [] c = "{"  -> IF CharAt(s, SkipWS(s, j + 1)) = "}"
                         THEN ParseOk(JVal("obj", <<>>), SkipWS(s, j + 1) + 1)
                         ELSE ParseMembers(s, j + 1, <<>>)
          [] c \in Digits -> ParseNumber(s, j)
          [] c = "n"  -> ParseLiteral(s, j, <<"n", "u", "l", "l">>, "null")
          [] c = "t"  -> ParseLiteral(s, j, <<"t", "r", "u", "e">>, "bool")
          [] c = "f"  -> ParseLiteral(s, j, <<"f", "a", "l", "s", "e">>, "bool")
          [] OTHER    -> ParseFail

\* the elements of an array from i on, acc being those already read
ParseElems(s, i, acc) ==
    LET r == ParseValue(s, i)
        j == SkipWS(s, r.next)
    IN  IF ~r.ok THEN ParseFail
        ELSE CASE CharAt(s, j) = "," -> ParseElems(s, j + 1, Append(acc, r.val))
               [] CharAt(s, j) = "]" -> ParseOk(JVal("arr", Append(acc, r.val)), j + 1)
               [] OTHER -> ParseFail

\* the members of an object from i on, acc being those already read
ParseMembers(s, i, acc) ==
    LET j  == SkipWS(s, i)
        k  == IF CharAt(s, j) = "\"" THEN ParseString(s, j) ELSE ParseFail
        c  == SkipWS(s, k.next)
        r  == IF k.ok /\ CharAt(s, c) = ":" THEN ParseValue(s, c + 1) ELSE ParseFail
        e  == SkipWS(s, r.next)
        ms == Append(acc, <<k.val, r.val>>)
    IN  IF ~r.ok THEN ParseFail
        ELSE CASE CharAt(s, e) = "," -> ParseMembers(s, e + 1, ms)
               [] CharAt(s, e) = "}" -> ParseOk(JVal("obj", ms), e + 1)
               [] OTHER -> ParseFail

\* JSON.parse(text): one value, whitespace around it, nothing else; ok is
\* FALSE where JSON.parse throws a SyntaxError
JSONParse(s) ==
    LET r == ParseValue(s, 1)
    IN  IF r.ok /\ SkipWS(s, r.next) = Len(s) + 1 THEN r ELSE ParseFail

-----------------------------------------------------------------------------
(* Relevance Selector: retrieve *)

\* docs: index.filter(...).slice(0, 4)
K == 4

\* paths.includes(doc.relPath): Array.prototype.includes on an array (strict
\* equality with an element), String.prototype.includes on a string
\* (substring); any other JSON value has no includes method
HasIncludes(val) == val.t \in {"arr", "str"}

IncludesSubstring(val, relPath) ==
    CASE val.t = "arr" -> \E k \in 1..Len(val.v) :
                              val.v[k].t = "str" /\ StrIncludes(val.v[k].v, relPath)
      [] val.t = "str" -> StrIncludes(val.v, relPath)
      [] OTHER -> FALSE

Includes(val, relPath) ==
    CASE val.t = "arr" -> \E k \in 1..Len(val.v) :
                              val.v[k].t = "str" /\ val.v[k].v = relPath
      [] val.t = "str" -> StrIncludes(val.v, relPath)
      [] OTHER -> FALSE

\* the filter callback runs once per document and throws a TypeError on its
\* first run when paths has no includes method
ThrowsTypeError(idx, val) == idx # <<>> /\ ~HasIncludes(val)

retrieveDocsNoSlice(idx, val) ==
    LET Keep(doc) == Includes(val, doc.relPath)
    IN  SelectSeq(idx, Keep)

\* index.filter((doc) => paths.includes(doc.relPath)).slice(0, 4)
retrieveDocs(idx, val) ==
    LET Keep(doc) == Includes(val, doc.relPath)
    IN  Slice0(SelectSeq(idx, Keep), K)

-----------------------------------------------------------------------------
(* The corpora and the model responses the pipeline is run on *)

P_a   == <<"a", ".", "m", "d">>
P_aa  == <<"a", "a", ".", "m", "d">>
P_b   == <<"b", ".", "m", "d">>
P_c   == <<"c", ".", "a", "d", "o", "c">>
P_d   == <<"d", ".", "m", "d">>
P_e   == <<"e", ".", "m", "d">>
P_z   == <<"z", ".", "m", "d">>
P_upA == <<"A", ".", "m", "d">>

\* the files a walked directory may hold, with their contents
FilePool ==
    { [path |-> P_a,  content |-> <<"#", " ", "A", "\n", "x">>],
      [path |-> P_aa, content |-> <<>>],
      [path |-> P_b,  content |-> <<"x">>],
      [path |-> P_c,  content |-> <<"=", " ", "C">>],
      [path |-> P_d,  content |-> <<"x", "x">>],
      [path |-> P_e,  content |-> <<"#", "\n", "x">>] }

\* paths a model may name although no file has them
GhostPaths == {P_z, P_upA}

\* the sequences without repetition of at most n elements of S
RECURSIVE SeqsNoRep(_, _)
SeqsNoRep(S, n) ==
    IF n = 0 THEN {<<>>}
    ELSE LET shorter == SeqsNoRep(S, n - 1)
         IN  shorter \cup
             {Append(qx[1], qx[2]) :
                 qx \in {y \in shorter \X S :
                             Len(y[1]) = n - 1 /\ y[2] \notin Range(y[1])}}

\* a directory: at most MaxFiles files of the pool in any walk order
Corpora == SeqsNoRep(FilePool, MaxFiles)


RelPaths(ds) == [k \in 1..Len(ds) |-> ds[k].relPath]

Reverse(q) == [k \in 1..Len(q) |-> q[Len(q) + 1 - k]]

Quote(str) == <<"\"">> \o str \o <<"\"">>

\* the JSON text of an array of strings
ArrayText(list, sep) ==
    <<"[">> \o Join([k \in 1..Len(list) |-> Quote(list[k])], sep) \o <<"]">>

Prose_Sure == <<"S", "u", "r", "e", "!", " ">>
Prose_Done == <<" ", "d", "o", "n", "e", ".">>
Prose_None == <<"n", "o", "n", "e", " ", "f", "i", "t">>

\* the path lists a model may answer with for an index
PathLists(idx) ==
    LET own == RelPaths(idx)
    IN  {<<>>, own, Reverse(own)}
        \cup {<<p>> : p \in Range(own) \cup GhostPaths}
        \cup {<<pq[1], pq[2]>> :
                 pq \in {y \in Range(own) \X Range(own) : y[1] # y[2]}}
        \cup {<<g>> \o own : g \in GhostPaths}
        \cup {Append(own, g) : g \in GhostPaths}

\* the texts the selector's model call may return for an index: JSON arrays
\* of paths, the same wrapped in prose or whitespace, and JSON that is no
\* array of strings
Responses(idx) ==
    LET own   == RelPaths(idx)
        first == Slice0(own, 2)
    IN  {ArrayText(l, <<",">>) : l \in PathLists(idx)}
        \cup {Prose_Sure \o ArrayText(l, <<",", " ">>) \o Prose_Done :
                 l \in {first, Reverse(first)}}
        \cup {<<" ">> \o ArrayText(first, <<",", " ">>) \o <<"\n">>}
        \cup {Quote(p) : p \in Range(own) \cup GhostPaths \cup {P_aa}}
        \cup {<<"[", "1", ",">> \o Quote(p) \o <<"]">> : p \in Range(first)}
        \cup {<<"{", "\"", "p", "\"", ":">> \o ArrayText(first, <<",">>) \o <<"}">>}
        \cup {<<"4">>, <<"n", "u", "l", "l">>, <<"{", "}">>, Prose_None, <<>>}

-----------------------------------------------------------------------------
(* The two-stage entry point *)

NoValue == JVal("none", <<>>)

NoCostIn == [engine |-> "none"]

NoOutlineIn == [encoder |-> "none"]

\* totalInputTokens, totalOutputTokens, cacheCreationTokens, cacheReadTokens
NoTokens == [input |-> 0, output |-> 0, cacheCreation |-> 0, cacheRead |-> 0]

\* nothing asynchronous is going on and runQuery has not run
Quiet ==
    /\ inflight = {}
    /\ rendering = {}
    /\ shown = <<>>
    /\ events = <<>>
    /\ finalAnswer = <<>>
    /\ tokens = NoTokens

A_dir   == <<"d", "o", "c", "s">>
A_query == <<"w", "h", "y">>

\* argument lists without a directory or without a query
BadArgs == {<<>>, <<A_dir>>, <<<<>>, A_query>>, <<A_dir, <<>>>>}

GoodArgs == {<<A_dir, A_query, A_query>>}

Idle ==
    /\ dir = <<>>
    /\ index = <<>>
    /\ response = <<>>
    /\ paths = NoValue
    /\ docs = <<>>
    /\ err = "none"
    /\ selectorCalls = 0
    /\ answerCalls = 0
    /\ answerDocs = <<>>
    /\ rendered = <<>>
    /\ costIn = NoCostIn
    /\ cost = -1
    /\ outlineIn = NoOutlineIn
    /\ outline = <<>>
    /\ inflight = {}
    /\ rendering = {}
    /\ shown = <<>>
    /\ events = <<>>
    /\ finalAnswer = <<>>
    /\ tokens = NoTokens

Init ==
    /\ pc = "start"
    /\ \/ args \in BadArgs /\ fs = <<>>
       \/ args \in GoodArgs /\ fs \in Corpora
    /\ Idle

\* throw: the rejection is not caught and ends the process
Throw(e) ==
    /\ err' = e
    /\ pc' = "failed"

\* const [dir, ...qParts] = args._.map(String), and the two checks
ParseArgs ==
    /\ pc = "start"
    /\ LET d        == IF args = <<>> THEN <<>> ELSE Head(args)
           qParts   == IF args = <<>> THEN <<>> ELSE Tail(args)
           question == Join(qParts, <<" ">>)
       IN  /\ dir' = d
           /\ IF d = <<>> THEN Throw("Please provide a directory path")
              ELSE IF question = <<>> THEN Throw("Please provide a query")
              ELSE pc' = "index" /\ err' = err
    /\ UNCHANGED <<args, fs, index, response, paths, docs, selectorCalls,
                   answerCalls, answerDocs, rendered, costIn, cost,
                   outlineIn, outline>>
    /\ UNCHANGED <<asyncVars, queryVars>>

\* const index = await getIndex(dir)
GetIndex ==
    /\ pc = "index"
    /\ index' = getIndexJoined(fs)
    /\ pc' = "retrieve"
    /\ UNCHANGED <<args, dir, fs, response, paths, docs, err, selectorCalls,
                   answerCalls, answerDocs, rendered, costIn, cost,
                   outlineIn, outline>>
    /\ UNCHANGED <<asyncVars, queryVars>>

IndexFailsKeepingTheRest ==
    /\ pc = "index"
    /\ fs # <<>>
    /\ index' = getIndexJoined(Tail(fs))
    /\ err' = "IndexingError"
    /\ pc' = "retrieve"
    /\ UNCHANGED <<args, dir, fs, response, paths, docs, selectorCalls,
                   answerCalls, answerDocs, rendered, costIn, cost,
                   outlineIn, outline>>
    /\ UNCHANGED <<asyncVars, queryVars>>

\* Deno.readTextFile rejects for a walked file: Array.fromAsync rejects, no
\* index is returned and the rejection ends the process
IndexFails ==
    /\ pc = "index"
    /\ fs # <<>>
    /\ Throw("IndexingError")
    /\ UNCHANGED <<args, dir, fs, index, response, paths, docs, selectorCalls,
                   answerCalls, answerDocs, rendered, costIn, cost,
                   outlineIn, outline>>
    /\ UNCHANGED <<asyncVars, queryVars>>

\* renderMd(md): with glow on a terminal the glow process is started and
\* awaited inside renderMd only; otherwise console.log prints at once
renderMd(title, glow) ==
    IF glow
    THEN rendering' = rendering \cup {title} /\ shown' = shown
    ELSE rendering' = rendering /\ shown' = Append(shown, title)

\* a glow process started by renderMd finishes writing its output
GlowExit ==
    /\ \E title \in rendering :
          /\ rendering' = rendering \ {title}
          /\ shown' = Append(shown, title)
    /\ UNCHANGED <<args, dir, fs, pc, index, response, paths, docs, err,
                   selectorCalls, answerCalls, answerDocs, rendered, costIn,
                   cost, outlineIn, outline, inflight>>
    /\ UNCHANGED queryVars

\* retrieve: the askClaude call is issued
RetrieveCall ==
    /\ pc = "retrieve"
    /\ selectorCalls' = selectorCalls + 1
    /\ inflight' = inflight \cup {"selector"}
    /\ pc' = "retrieving"
    /\ UNCHANGED <<args, dir, fs, index, response, paths, docs, err, answerCalls,
                   answerDocs, rendered, costIn, cost, outlineIn, outline,
                   rendering, shown>>
    /\ UNCHANGED queryVars

\* retrieve: the call returns result.content; JSON.parse, filter, slice
RetrieveReturn ==
    /\ pc = "retrieving"
    /\ inflight' = inflight \ {"selector"}
    /\ \E r \in Responses(index) :
          LET parsed == JSONParse(r)
          IN  /\ response' = r
              /\ IF ~parsed.ok
                 THEN Throw("SyntaxError") /\ UNCHANGED <<paths, docs>>
                 ELSE /\ paths' = parsed.val
                      /\ IF ThrowsTypeError(index, parsed.val)
                         THEN Throw("TypeError") /\ UNCHANGED docs
                         ELSE /\ docs' = retrieveDocs(index, parsed.val)
                              /\ pc' = "renderFiles"
                              /\ err' = err
    /\ UNCHANGED <<args, dir, fs, index, selectorCalls, answerCalls, answerDocs,
                   rendered, costIn, cost, outlineIn, outline, rendering, shown>>
    /\ UNCHANGED queryVars

\* either askClaude call rejects (network, auth, rate limit)
ModelCallFails ==
    /\ pc \in {"retrieving", "answering"}
    /\ inflight' = {}
    /\ Throw("ModelCallError")
    /\ UNCHANGED <<args, dir, fs, index, response, paths, docs, selectorCalls,
                   answerCalls, answerDocs, rendered, costIn, cost,
                   outlineIn, outline, rendering, shown>>
    /\ UNCHANGED queryVars

\* renderMd(`# Relevant files ...`), not awaited
RenderFiles ==
    /\ pc = "renderFiles"
    /\ rendered' = Append(rendered, [title |-> "Relevant files",
                                     bullets |-> RelPaths(docs)])
    /\ \E glow \in BOOLEAN : renderMd("Relevant files", glow)
    /\ pc' = "answer"
    /\ UNCHANGED <<args, dir, fs, index, response, paths, docs, err, selectorCalls,
                   answerCalls, answerDocs, costIn, cost, outlineIn, outline,
                   inflight>>
    /\ UNCHANGED queryVars

AnswerCallBeforeRetrieveReturns ==
    /\ pc \in {"retrieving", "answer"}
    /\ answerCalls' = answerCalls + 1
    /\ answerDocs' = docs
    /\ inflight' = inflight \cup {"answer"}
    /\ pc' = "answering"
    /\ UNCHANGED <<args, dir, fs, index, response, paths, docs, err, selectorCalls,
                   rendered, costIn, cost, outlineIn, outline, rendering, shown>>
    /\ UNCHANGED queryVars

\* getAnswer(retrieved.docs, question): the askClaude call is issued
AnswerCall ==
    /\ pc = "answer"
    /\ answerCalls' = answerCalls + 1
    /\ answerDocs' = docs
    /\ inflight' = inflight \cup {"answer"}
    /\ pc' = "answering"
    /\ UNCHANGED <<args, dir, fs, index, response, paths, docs, err, selectorCalls,
                   rendered, costIn, cost, outlineIn, outline, rendering, shown>>
    /\ UNCHANGED queryVars

\* getAnswer returns and renderMd(`# Answer ...`) is called, not awaited
RenderAnswer ==
    /\ pc = "answering"
    /\ inflight' = inflight \ {"answer"}
    /\ rendered' = Append(rendered, [title |-> "Answer", bullets |-> <<>>])
    /\ \E glow \in BOOLEAN : renderMd("Answer", glow)
    /\ pc' = "done"
    /\ UNCHANGED <<args, dir, fs, index, response, paths, docs, err, selectorCalls,
                   answerCalls, answerDocs, costIn, cost, outlineIn, outline>>
    /\ UNCHANGED queryVars

Next ==
    \/ ParseArgs
    \/ GetIndex
    \/ IndexFails
    \/ RetrieveCall
    \/ RetrieveReturn
    \/ ModelCallFails
    \/ RenderFiles
    \/ AnswerCall
    \/ RenderAnswer
    \/ GlowExit

Spec == Init /\ [][Next]_vars

-----------------------------------------------------------------------------
(* Properties of the two-stage entry point *)

\* retrieve has returned its docs to the entry point
RetrieveSucceeded == pc \in {"renderFiles", "answer", "answering", "done"}
                        \/ answerCalls > 0

\* retrieve has consumed the model's response, successfully or not
RetrieveReturned == RetrieveSucceeded \/ err \in {"SyntaxError", "TypeError"}

IsStringArray(val) ==
    val.t = "arr" /\ \A k \in 1..Len(val.v) : val.v[k].t = "str"

\* position of the first occurrence of a path in the parsed path list
PosInPaths(val, relPath) ==
    LET hits == {k \in 1..Len(val.v) : val.v[k] = JVal("str", relPath)}
    IN  IF hits = {} THEN 0 ELSE CHOOSE k \in hits : \A m \in hits : k <= m

\* C1: retrieve returns at most K = 4 documents and every one of them is an
\* element of the input index.
C1_AtMostKFromIndex ==
    /\ Len(docs) <= K
    /\ \A k \in 1..Len(docs) : \E i \in 1..Len(index) : docs[k] = index[i]

\* C1 witness: the model named more than K documents of the index and K of
\* them came back.
C1_Witness ==
    /\ pc = "renderFiles"
    /\ IsStringArray(paths)
    /\ Cardinality({i \in 1..Len(index) : PosInPaths(paths, index[i].relPath) > 0}) > K
    /\ Len(docs) = K

\* C2: the returned documents are in the order of the model's path list: d1
\* precedes d2 in docs iff d1's path precedes d2's path in the list.
C2_ModelOrder ==
    (RetrieveSucceeded /\ IsStringArray(paths)) =>
        \A i, j \in 1..Len(docs) :
            i < j <=> PosInPaths(paths, docs[i].relPath)
                          < PosInPaths(paths, docs[j].relPath)

\* the response 'Sure! ["p", "q"] done.' for the path list l
ProseWrapped(l) == Prose_Sure \o ArrayText(l, <<",", " ">>) \o Prose_Done

\* C3: a JSON array of strings wrapped in prose (Sure! ["a.md", "b.md"]
\* done.) is extracted as the path list and retrieve does not fail.
C3_ProseTolerated ==
    \A l \in SeqsNoRep(Range(RelPaths(index)), 2) :
        (RetrieveReturned /\ response = ProseWrapped(l)) =>
            /\ err \notin {"SyntaxError", "TypeError"}
            /\ paths = JVal("arr", [k \in 1..Len(l) |-> JVal("str", l[k])])

\* the response holds no bracketed array, or is JSON but no array of strings
NoStringArray(r) ==
    \/ "[" \notin Range(r)
    \/ JSONParse(r).ok /\ ~IsStringArray(JSONParse(r).val)

\* C4: a response without a bracketed array, or one that is JSON but not an
\* array of strings, makes retrieve fail and return no documents.
C4_RejectsNonArrays ==
    (RetrieveReturned /\ NoStringArray(response)) =>
        /\ err \in {"SyntaxError", "TypeError"}
        /\ docs = <<>>

\* C5: when the selector returned an empty document list, the Answer
\* Generator is never invoked.
C5_EmptySelectionShortCircuits ==
    (RetrieveSucceeded /\ docs = <<>>) => answerCalls = 0

\* the Router's fixed threshold on the summed content length
Threshold == 4

RECURSIVE TotalLen(_)
TotalLen(ds) == IF ds = <<>> THEN 0 ELSE Len(Head(ds).content) + TotalLen(Tail(ds))

\* C6: the Answer Generator gets the entire corpus without a selector call
\* iff the summed content length is <= the threshold; larger corpora run the
\* selector first.
C6_RouterIff ==
    answerCalls > 0 =>
        ((selectorCalls = 0 /\ answerDocs = index) <=> TotalLen(index) <= Threshold)

\* C11: model calls are strictly sequential: the Answer call is issued only
\* after the Selector call has settled and its document list is there, and
\* never are two model calls in flight.
C11_CallsSequential ==
    /\ Cardinality(inflight) <= 1
    /\ answerCalls > 0 =>
          /\ selectorCalls = 1
          /\ "selector" \notin inflight
          /\ paths # NoValue
          /\ err \notin {"SyntaxError", "TypeError"}
          /\ answerDocs = docs

\* C11 witness: the Answer call is in flight, for documents the Selector call
\* returned.
C11_Witness ==
    /\ inflight = {"answer"}
    /\ selectorCalls = 1
    /\ docs # <<>>
    /\ answerDocs = docs

\* C12: the parsed path list is cut to its first K = 4 entries before it is
\* resolved: no returned document has its path only at position 5 or later.
C12_ListTruncatedFirst ==
    (RetrieveSucceeded /\ IsStringArray(paths)) =>
        \A k \in 1..Len(docs) : PosInPaths(paths, docs[k].relPath) \in 1..K

\* C13: paths of the list that match no document raise no error and are
\* left out: a document is returned only if its relPath equals a string of
\* the list, and a list without a matching path gives an empty result.
C13_UnmatchedPathsDropped ==
    (RetrieveReturned /\ IsStringArray(paths)) =>
        LET list == paths.v
        IN  /\ err \notin {"SyntaxError", "TypeError"}
            /\ \A k \in 1..Len(docs) :
                  \E n \in 1..Len(list) : list[n].v = docs[k].relPath
            /\ (\A i \in 1..Len(index) : \A n \in 1..Len(list) :
                    list[n].v # index[i].relPath) => docs = <<>>

\* C13 witness: the model named A.md while the index holds a.md; nothing was
\* returned and nothing failed.
C13_Witness ==
    /\ pc = "renderFiles"
    /\ response = ArrayText(<<P_upA>>, <<",">>)
    /\ \E i \in 1..Len(index) : index[i].relPath = P_a
    /\ docs = <<>>
    /\ err = "none"

\* C14: when reading a file fails, getIndex returns no index at all and the
\* invocation ends before any model call is issued.
C14_IndexingFailsFast ==
    err = "IndexingError" =>
        /\ pc = "failed"
        /\ index = <<>>
        /\ selectorCalls = 0 /\ answerCalls = 0
        /\ inflight = {}
        /\ events = <<>>

\* C14 witness: a directory of several files, one of them unreadable, ended
\* the invocation.
C14_Witness ==
    /\ err = "IndexingError"
    /\ Len(fs) >= 2
    /\ pc = "failed"

\* C16: the rendering of '# Relevant files' has completed before the Answer
\* call is issued and before the rendering of '# Answer' begins; the two
\* outputs neither overlap nor appear out of order.
C16_RendersInOrder ==
    /\ answerCalls > 0 => "Relevant files" \in Range(shown)
    /\ "Answer" \in rendering \cup Range(shown) => "Relevant files" \in Range(shown)
    /\ Cardinality(rendering) <= 1
    /\ shown \in {<<>>, <<"Relevant files">>, <<"Relevant files", "Answer">>}

-----------------------------------------------------------------------------
(* The index-only entry point (raggedy-ts/main.ts) *)

Alphabet == {"#", "=", " ", "\n", "x"}

\* every text of at most MaxLen characters
Contents == UNION {[1..n -> Alphabet] : n \in 0..MaxLen}

S_undefined == <<"u", "n", "d", "e", "f", "i", "n", "e", "d">>

\* {a.md: "# Title\nfoo", b.adoc: "= Title\nbar"}
P_badoc == <<"b", ".", "a", "d", "o", "c">>

H_md   == <<"#", " ", "T", "i", "t", "l", "e">>
H_adoc == <<"=", " ", "T", "i", "t", "l", "e">>

TitleCorpus ==
    << [path |-> P_a,     content |-> H_md \o <<"\n", "f", "o", "o">>],
       [path |-> P_badoc, content |-> H_adoc \o <<"\n", "b", "a", "r">>] >>

\* one Markdown or AsciiDoc file of any content, or the corpus above
InitIndex ==
    /\ pc = "start"
    /\ \/ /\ args \in {<<A_dir>>}
          /\ \/ fs \in {<<[path |-> p, content |-> c]>> : p \in {P_a, P_c}, c \in Contents}
             \/ fs = TitleCorpus
       \/ /\ args \in {<<>>, <<<<>>>>}
          /\ fs = <<>>
    /\ Idle

\* const dir = String(args._[0]); if (!dir) throw ...
IndexerParseArgs ==
    /\ pc = "start"
    /\ LET d == IF args = <<>> THEN S_undefined ELSE Head(args)
       IN  /\ dir' = d
           /\ IF d = <<>> THEN Throw("Please provide a directory path")
              ELSE pc' = "index" /\ err' = err
    /\ UNCHANGED <<args, fs, index, response, paths, docs, selectorCalls,
                   answerCalls, answerDocs, rendered, costIn, cost,
                   outlineIn, outline>>
    /\ UNCHANGED <<asyncVars, queryVars>>

\* const index = await getIndex(dir)
IndexerGetIndex ==
    /\ pc = "index"
    /\ index' = getIndex(fs)
    /\ pc' = "print"
    /\ UNCHANGED <<args, dir, fs, response, paths, docs, err, selectorCalls,
                   answerCalls, answerDocs, rendered, costIn, cost,
                   outlineIn, outline>>
    /\ UNCHANGED <<asyncVars, queryVars>>

\* console.log(JSON.stringify(index, null, 2))
IndexerPrint ==
    /\ pc = "print"
    /\ rendered' = Append(rendered, [title |-> "index", bullets |-> RelPaths(index)])
    /\ pc' = "done"
    /\ UNCHANGED <<args, dir, fs, index, response, paths, docs, err,
                   selectorCalls, answerCalls, answerDocs, costIn, cost,
                   outlineIn, outline>>
    /\ UNCHANGED <<asyncVars, queryVars>>

\* walk(dir) rejects with NotFound when the working directory has no entry
\* called 'undefined' (IndexerGetIndex is the run where it has one)
IndexerWalkFails ==
    /\ pc = "index"
    /\ dir = S_undefined
    /\ Throw("NotFound")
    /\ UNCHANGED <<args, dir, fs, index, response, paths, docs, selectorCalls,
                   answerCalls, answerDocs, rendered, costIn, cost,
                   outlineIn, outline>>
    /\ UNCHANGED <<asyncVars, queryVars>>

NextIndex ==
    \/ IndexerParseArgs
    \/ IndexerGetIndex
    \/ IndexerWalkFails
    \/ IndexerPrint

SpecIndex == InitIndex /\ [][NextIndex]_vars

\* C15: in every entry point that parses its own arguments, a run without a
\* directory argument fails with 'Please provide a directory path' and never
\* goes on to index a directory named by the stringified missing value.
C15_MissingDirRejected ==
    (args = <<>> /\ pc # "start") =>
        /\ pc = "failed"
        /\ err = "Please provide a directory path"
        /\ dir # S_undefined

-----------------------------------------------------------------------------
(* Properties of getIndex *)

Indexed == pc \in {"print", "done"}

\* the header character of the markup a file name stands for
MarkerOf(path) ==
    IF Len(path) >= 5 /\ SubSeq(path, Len(path) - 4, Len(path)) = Ext_adoc
    THEN "=" ELSE "#"

\* a line made of header characters, then whitespace, then text
IsHeadingLine(line, h) ==
    \E i \in 1..Len(line) : \E j \in (i + 1)..(Len(line) - 1) :
        /\ \A k \in 1..i : line[k] = h
        /\ \A k \in (i + 1)..j : IsWS(line[k])
        /\ ~IsWS(line[j + 1])

\* the texts hs occur in s one after the other, from position from on
RECURSIVE OccurInOrder(_, _, _)
OccurInOrder(hs, s, from) ==
    \/ hs = <<>>
    \/ LET p == IndexOf(s, Head(hs), from)
       IN  p > 0 /\ OccurInOrder(Tail(hs), s, p + 1)

\* C8: headings are extracted with the '=' pattern iff the path ends with
\* .adoc and with the '#' pattern otherwise, in document order: every heading
\* starts with the header character of the file's markup, every heading line
\* of that markup ends a heading, the headings occur in the content one after
\* the other, and {a.md: "# Title\nfoo", b.adoc: "= Title\nbar"} gives
\* ["# Title"] and ["= Title"].
C8_PatternByExtension ==
    Indexed =>
        /\ \A k \in 1..Len(index) :
              LET path == fs[k].path
                  text == fs[k].content
                  hs   == index[k].headings
                  ls   == Lines(text)
              IN  /\ \A n \in 1..Len(hs) : hs[n] # <<>> /\ hs[n][1] = MarkerOf(path)
                  /\ \A n \in 1..Len(ls) :
                        IsHeadingLine(ls[n], MarkerOf(path)) =>
                            \E m \in 1..Len(hs) : EndsWith(hs[m], Trim(ls[n]))
                  /\ OccurInOrder(hs, text, 1)
        /\ fs = TitleCorpus =>
              /\ index[1].headings = <<H_md>>
              /\ index[2].headings = <<H_adoc>>

\* C8 witness: the corpus {a.md: "# Title\nfoo", b.adoc: "= Title\nbar"} has
\* been indexed, the '#' line of a.md and the '=' line of b.adoc being the
\* headings.
C8_Witness ==
    /\ Indexed
    /\ fs = TitleCorpus
    /\ index[1].headings = <<H_md>>
    /\ index[2].headings = <<H_adoc>>

\* C9: head is a prefix of content no longer than the head budget; every
\* heading is exactly one line of content (never text spanning lines), and
\* the headings are in the order of those lines.
C9_DocInvariant ==
    Indexed =>
        \A k \in 1..Len(index) :
            LET doc == index[k]
                ls  == Lines(doc.content)
            IN  /\ Len(doc.head) <= HeadBudget
                /\ StartsAt(doc.content, doc.head, 1)
                /\ \A n \in 1..Len(doc.headings) :
                      /\ "\n" \notin Range(doc.headings[n])
                      /\ \E m \in 1..Len(ls) : doc.headings[n] = Trim(ls[m])
                /\ OccurInOrder(doc.headings, doc.content, 1)

-----------------------------------------------------------------------------
(* Usage/Cost Accounting: getCost and the cost of askGemini.                 *)
(* Rates are USD per million tokens times 10000, so that 0.0375 is an        *)
(* integer; a cost is tokens times rate, in units of 1e-10 USD.              *)

\* const prices = { ... }: USD per million tokens, times 10000
prices ==
    [haiku35 |-> [input |-> 10000, output |-> 50000,
                  cacheRead |-> 1000, cacheWrite |-> 12500],
     sonnet  |-> [input |-> 30000, output |-> 150000,
                  cacheRead |-> 3000, cacheWrite |-> 37500]]

\* the rates of askGemini, 0.15, 0.60 and 0.0375 USD per million tokens,
\* times 10000
geminiPrices == [input |-> 1500, output |-> 6000, cacheRead |-> 375]

\* x || 0 for a count that may be missing from the usage record
OrZero(u, field) == IF field \in DOMAIN u THEN u[field] ELSE 0

getCostSubtracting(model, usage) ==
    LET r == prices[model]
    IN  r.input * (usage.input_tokens - OrZero(usage, "cache_read_input_tokens"))
        + r.output * usage.output_tokens
        + r.cacheRead * OrZero(usage, "cache_read_input_tokens")
        + r.cacheWrite * OrZero(usage, "cache_creation_input_tokens")

\* getCost(model, usage)
getCost(model, usage) ==
    LET r == prices[model]
    IN  r.input * usage.input_tokens
        + r.output * usage.output_tokens
        + r.cacheRead * OrZero(usage, "cache_read_input_tokens")
        + r.cacheWrite * OrZero(usage, "cache_creation_input_tokens")

\* askGemini: usage from usageMetadata, then cost
geminiCost(meta) ==
    LET usage == [input |-> OrZero(meta, "promptTokenCount"),
                  output |-> OrZero(meta, "candidatesTokenCount"),
                  input_cache_hit |-> OrZero(meta, "cachedContentTokenCount")]
    IN  geminiPrices.input * (usage.input - usage.input_cache_hit)
        + geminiPrices.output * usage.output
        + geminiPrices.cacheRead * usage.input_cache_hit

\* token counts, in steps of 100 tokens
TokenCounts == {100 * n : n \in 0..MaxTok}

\* the records with the fields req and any of the fields opt
RecordsOver(req, opt, vals) == UNION {[req \cup o -> vals] : o \in SUBSET opt}

\* usage records of the Anthropic API: the cache counts may be missing
ClaudeUsages ==
    RecordsOver({"input_tokens", "output_tokens"},
                {"cache_read_input_tokens", "cache_creation_input_tokens"},
                TokenCounts)

\* usageMetadata of the Gemini API: cached tokens are part of the prompt
GeminiMetas ==
    {m \in RecordsOver({}, {"promptTokenCount", "candidatesTokenCount",
                            "cachedContentTokenCount"}, TokenCounts) :
        OrZero(m, "cachedContentTokenCount") <= OrZero(m, "promptTokenCount")}

InitCost ==
    /\ pc = "start"
    /\ args = <<>>
    /\ fs = <<>>
    /\ dir = <<>>
    /\ index = <<>>
    /\ response = <<>>
    /\ paths = NoValue
    /\ docs = <<>>
    /\ err = "none"
    /\ selectorCalls = 0
    /\ answerCalls = 0
    /\ answerDocs = <<>>
    /\ rendered = <<>>
    /\ \/ costIn \in {[engine |-> "getCost", model |-> m, usage |-> u] :
                         m \in DOMAIN prices, u \in ClaudeUsages}
       \/ costIn \in {[engine |-> "askGemini", usage |-> u] : u \in GeminiMetas}
    /\ cost = -1
    /\ outlineIn = NoOutlineIn
    /\ outline = <<>>
    /\ Quiet

\* askClaude: cost: getCost(model, response.usage)
ClaudeCost ==
    /\ pc = "start"
    /\ costIn.engine = "getCost"
    /\ cost' = getCost(costIn.model, costIn.usage)
    /\ pc' = "done"
    /\ UNCHANGED <<args, dir, fs, index, response, paths, docs, err,
                   selectorCalls, answerCalls, answerDocs, rendered, costIn,
                   outlineIn, outline>>
    /\ UNCHANGED <<asyncVars, queryVars>>

\* askGemini: const cost = ...
GeminiCost ==
    /\ pc = "start"
    /\ costIn.engine = "askGemini"
    /\ cost' = geminiCost(costIn.usage)
    /\ pc' = "done"
    /\ UNCHANGED <<args, dir, fs, index, response, paths, docs, err,
                   selectorCalls, answerCalls, answerDocs, rendered, costIn,
                   outlineIn, outline>>
    /\ UNCHANGED <<asyncVars, queryVars>>

NextCost ==
    \/ ClaudeCost
    \/ GeminiCost

SpecCost == InitCost /\ [][NextCost]_vars

-----------------------------------------------------------------------------
(* Properties of the cost accounting *)

\* the usage record of a cost computation as {input, output, cacheRead,
\* cacheWrite}
UsageOf(in) ==
    IF in.engine = "getCost"
    THEN [input      |-> in.usage.input_tokens,
          output     |-> in.usage.output_tokens,
          cacheRead  |-> OrZero(in.usage, "cache_read_input_tokens"),
          cacheWrite |-> OrZero(in.usage, "cache_creation_input_tokens")]
    ELSE [input      |-> OrZero(in.usage, "promptTokenCount"),
          output     |-> OrZero(in.usage, "candidatesTokenCount"),
          cacheRead  |-> OrZero(in.usage, "cachedContentTokenCount"),
          cacheWrite |-> 0]

\* its rates per million tokens, times 10000
RatesOf(in) ==
    IF in.engine = "getCost"
    THEN IF in.model = "sonnet"
         THEN [input |-> 30000, output |-> 150000, cacheRead |-> 3000, cacheWrite |-> 37500]
         ELSE [input |-> 10000, output |-> 50000, cacheRead |-> 1000, cacheWrite |-> 12500]
    ELSE [input |-> 1500, output |-> 6000, cacheRead |-> 375, cacheWrite |-> 0]

\* (input - cacheRead) * inputRate + output * outputRate
\*   + cacheRead * cacheReadRate + cacheWrite * cacheWriteRate
ClaimedCost(u, r) ==
    (u.input - u.cacheRead) * r.input + u.output * r.output
        + u.cacheRead * r.cacheRead + u.cacheWrite * r.cacheWrite

\* usage {input: 1000, output: 200, cacheRead: 500, cacheWrite: 0}
ExampleUsage ==
    [input_tokens |-> 1000, output_tokens |-> 200,
     cache_read_input_tokens |-> 500, cache_creation_input_tokens |-> 0]

IsExample == costIn = [engine |-> "getCost", model |-> "sonnet", usage |-> ExampleUsage]

\* C7 (as claimed): every computed cost is (input - cacheRead) * inputRate +
\* output * outputRate + cacheRead * cacheReadRate + cacheWrite *
\* cacheWriteRate; rates {3, 15, 0.3, 3.75} and usage {1000, 200, 500, 0}
\* cost 0.00465 USD.
C7_CostSubtractsCacheReads ==
    pc = "done" =>
        /\ cost = ClaimedCost(UsageOf(costIn), RatesOf(costIn))
        /\ IsExample => cost = 46500000

\* C7 (amended): getCost charges input_tokens in full, so its cost exceeds
\* the claimed formula by cacheRead * inputRate and the example costs
\* 0.00615 USD; only the cost of askGemini subtracts the cache hits from the
\* input tokens.
C7_CostAsComputed ==
    pc = "done" =>
        LET u == UsageOf(costIn)
            r == RatesOf(costIn)
        IN  /\ costIn.engine = "getCost" =>
                  cost = ClaimedCost(u, r) + u.cacheRead * r.input
            /\ costIn.engine = "askGemini" => cost = ClaimedCost(u, r)
            /\ IsExample => cost = 61500000

\* C7 witness: the example usage has been priced at the sonnet rates.
C7_Witness ==
    /\ pc = "done"
    /\ IsExample
    /\ cost = 61500000

-----------------------------------------------------------------------------
(* Outline Encoder: outlineXml and the inline encoding of retrieve.          *)
(* $.dedent strips the indentation of the template's own text and inserts    *)
(* the interpolated values as they are.                                      *)

T_document  == <<"<", "d", "o", "c", "u", "m", "e", "n", "t", ">">>
T_documentE == <<"<", "/", "d", "o", "c", "u", "m", "e", "n", "t", ">">>
T_path      == <<"<", "p", "a", "t", "h", ">">>
T_pathE     == <<"<", "/", "p", "a", "t", "h", ">">>
T_fullPath  == <<"<", "f", "u", "l", "l", "P", "a", "t", "h", ">">>
T_fullPathE == <<"<", "/", "f", "u", "l", "l", "P", "a", "t", "h", ">">>
T_sections  == <<"<", "s", "e", "c", "t", "i", "o", "n", "s", ">">>
T_sectionsE == <<"<", "/", "s", "e", "c", "t", "i", "o", "n", "s", ">">>
T_head      == <<"<", "h", "e", "a", "d", ">">>
T_headE     == <<"<", "/", "h", "e", "a", "d", ">">>

NL2 == <<"\n", " ", " ">>

\* resolve(baseDir, relPath) for an absolute baseDir and a normalized relPath
resolve(baseDir, relPath) == baseDir \o <<"/">> \o relPath

\* outlineXml(doc, baseDir)
outlineXml(doc, baseDir) ==
    T_document
    \o NL2 \o T_path \o doc.relPath \o T_pathE
    \o NL2 \o T_fullPath \o resolve(baseDir, doc.relPath) \o T_fullPathE
    \o NL2 \o T_sections \o doc.headings \o T_sectionsE
    \o NL2 \o T_head \o doc.head \o T_headE
    \o <<"\n">> \o T_documentE

\* the block retrieve renders for one document of the index
retrieveOutline(doc) ==
    T_document
    \o NL2 \o T_path \o doc.relPath \o T_pathE
    \o NL2 \o T_sections \o doc.headings \o T_sectionsE
    \o NL2 \o T_head \o doc.head \o T_headE
    \o <<"\n">> \o T_documentE

\* relative paths of Markdown files, some in directories named like tags
OutlinePaths ==
    { P_a,
      <<"s", "/">> \o P_a,
      T_pathE \o Ext_md,
      T_path \o <<"/", "x">> \o Ext_md,
      <<"x">> \o T_documentE \o Ext_md }

\* heading strings and head previews, some holding tags
OutlineTexts ==
    { <<>>,
      <<"#", " ", "A">>,
      <<"#", " ">> \o T_pathE,
      T_path \o <<"y">> \o T_pathE,
      T_document \o <<"\n">> \o T_headE }

\* the absolute directory the paths are resolved against
BaseDir == <<"/">> \o A_dir

InitOutline ==
    /\ pc = "start"
    /\ args = <<>>
    /\ fs = <<>>
    /\ dir = BaseDir
    /\ index = <<>>
    /\ response = <<>>
    /\ paths = NoValue
    /\ docs = <<>>
    /\ err = "none"
    /\ selectorCalls = 0
    /\ answerCalls = 0
    /\ answerDocs = <<>>
    /\ rendered = <<>>
    /\ costIn = NoCostIn
    /\ cost = -1
    /\ outlineIn \in {[encoder |-> e,
                       doc |-> [relPath |-> p, content |-> t, head |-> t, headings |-> h]] :
                         e \in {"outlineXml", "retrieve"}, p \in OutlinePaths,
                         t \in OutlineTexts, h \in OutlineTexts}
    /\ outline = <<>>
    /\ Quiet

\* index.map((doc) => outlineXml(doc, targetDir)) for one document
EncodeOutlineXml ==
    /\ pc = "start"
    /\ outlineIn.encoder = "outlineXml"
    /\ outline' = outlineXml(outlineIn.doc, dir)
    /\ pc' = "done"
    /\ UNCHANGED <<args, dir, fs, index, response, paths, docs, err,
                   selectorCalls, answerCalls, answerDocs, rendered, costIn,
                   cost, outlineIn>>
    /\ UNCHANGED <<asyncVars, queryVars>>

\* index.map((doc) => $.dedent`...`) in retrieve, for one document
EncodeRetrieveOutline ==
    /\ pc = "start"
    /\ outlineIn.encoder = "retrieve"
    /\ outline' = retrieveOutline(outlineIn.doc)
    /\ pc' = "done"
    /\ UNCHANGED <<args, dir, fs, index, response, paths, docs, err,
                   selectorCalls, answerCalls, answerDocs, rendered, costIn,
                   cost, outlineIn>>
    /\ UNCHANGED <<asyncVars, queryVars>>

NextOutline ==
    \/ EncodeOutlineXml
    \/ EncodeRetrieveOutline

SpecOutline == InitOutline /\ [][NextOutline]_vars

-----------------------------------------------------------------------------
(* Properties of the outline encoding *)

\* the content of the first <path>...</path> element of a rendered block
ExtractPath(block) ==
    LET open  == IndexOf(block, T_path, 1)
        close == IndexOf(block, T_pathE, open + Len(T_path))
    IN  IF open = 0 \/ close = 0 THEN <<>>
        ELSE SubSeq(block, open + Len(T_path), close - 1)

\* C10: encoding a Document and extracting the content of the first
\* <path>...</path> element of the block yields the document's relPath, for
\* every relPath, headings and head, tag-like text included.
C10_PathRoundTrip ==
    pc = "done" => ExtractPath(outline) = outlineIn.doc.relPath


-----------------------------------------------------------------------------
(* The agent entry point (main.ts 1-301): the Command action and runQuery *)

\* the longest event stream query() yields
MaxEvents == 3

\* head of the agent variant: content.slice(0, 800), scaled as HeadBudget is
AgentHeadBudget == 4

\* getIndex of the agent variant
getIndexAgent(files) ==
    [k \in 1..Len(files) |->
        [MakeDoc(files[k]) EXCEPT !.headings = Join(@, <<"\n">>),
                                  !.head = Slice0(files[k].content, AgentHeadBudget)]]

Home == <<"/", "h">>
Cwd  == <<"/", "w">>
A_tildeDir == <<"~", "/">> \o A_dir

\* resolve(dir.replace(/^~/, Deno.env.get('HOME') || '~'))
targetDirOf(d) ==
    LET r == IF d # <<>> /\ Head(d) = "~" THEN Home \o Tail(d) ELSE d
    IN  IF r # <<>> /\ Head(r) = "/" THEN r ELSE resolve(Cwd, r)

\* texts carried by events
T_R == <<"R">>
T_A == <<"A">>
T_B == <<"B">>
T_C == <<"C">>

TextBlock(t) == [type |-> "text", text |-> t]
ToolBlock    == [type |-> "tool_use", name |-> "Glob", input |-> [pattern |-> "*"]]
ToolResult   == [type |-> "tool_result", content |-> T_B]

U_full  == [input_tokens |-> 100, output_tokens |-> 200,
            cache_creation_input_tokens |-> 300, cache_read_input_tokens |-> 400]
U_plain == [input_tokens |-> 100, output_tokens |-> 0]

Assistant(content) == [type |-> "assistant", message |-> [content |-> content]]

\* the SDK messages the stream is made of: results with and without a result
\* field, assistant messages with every arrangement of blocks, and others
EventMenu ==
    { [type |-> "result", result |-> T_R, usage |-> U_full],
      [type |-> "result", result |-> <<>>, usage |-> U_plain],
      [type |-> "result", usage |-> U_plain],
      Assistant(<<TextBlock(T_A)>>),
      Assistant(<<ToolBlock, TextBlock(T_B)>>),
      Assistant(<<TextBlock(<<>>), TextBlock(T_C)>>),
      Assistant(<<[type |-> "text"], TextBlock(T_C)>>),
      Assistant(<<ToolBlock>>),
      [type |-> "assistant"],
      [type |-> "assistant", message |-> [role |-> "assistant"]],
      [type |-> "user", message |-> [content |-> <<ToolResult, TextBlock(T_B)>>]],
      [type |-> "system"] }

\* content.find((c) => c.type === 'text'): the index of the block, 0 if none
RECURSIVE find(_, _)
find(content, k) ==
    IF k > Len(content) THEN 0
    ELSE IF content[k].type = "text" THEN k
    ELSE find(content, k + 1)

\* textContent?.text, <<>> standing for undefined and for ''
textOf(content) ==
    LET k == find(content, 1)
    IN  IF k = 0 THEN <<>>
        ELSE IF "text" \in DOMAIN content[k] THEN content[k].text
        ELSE <<>>

hasContent(event) ==
    /\ "message" \in DOMAIN event
    /\ "content" \in DOMAIN event.message

\* the text picked from the first text block that has any
stepAnswerAnyText(fa, event) ==
    LET afterResult ==
            IF event.type = "result" /\ "result" \in DOMAIN event
            THEN event.result ELSE fa
        NonEmpty(b) == b.type = "text" /\ "text" \in DOMAIN b /\ b.text # <<>>
    IN  IF event.type = "assistant" /\ hasContent(event)
           /\ SelectSeq(event.message.content, NonEmpty) # <<>>
        THEN Head(SelectSeq(event.message.content, NonEmpty)).text
        ELSE afterResult

\* finalAnswer after the loop body has handled one event
stepAnswer(fa, event) ==
    LET afterResult ==
            IF event.type = "result" /\ "result" \in DOMAIN event
            THEN event.result ELSE fa
    IN  IF event.type = "assistant" /\ hasContent(event)
           /\ textOf(event.message.content) # <<>>
        THEN textOf(event.message.content)
        ELSE afterResult

\* the usage totals after the loop body has handled one event
stepTokens(t, event) ==
    IF "usage" \in DOMAIN event
    THEN [input         |-> t.input + OrZero(event.usage, "input_tokens"),
          output        |-> t.output + OrZero(event.usage, "output_tokens"),
          cacheCreation |-> t.cacheCreation
                               + OrZero(event.usage, "cache_creation_input_tokens"),
          cacheRead     |-> t.cacheRead
                               + OrZero(event.usage, "cache_read_input_tokens")]
    ELSE t

\* pricing['claude-haiku-4-5-20251001'], USD per million tokens times 10000
pricing == [input |-> 10000, output |-> 50000, cacheWrite |-> 12500, cacheRead |-> 1000]

\* totalCost of the usage summary
totalCost(t) ==
    t.input * pricing.input + t.output * pricing.output
        + t.cacheCreation * pricing.cacheWrite + t.cacheRead * pricing.cacheRead

QueryArgs == {<<A_dir, A_query>>, <<A_tildeDir, A_query, A_query>>, <<A_dir, <<>>>>}

InitQuery ==
    /\ pc = "start"
    /\ args \in QueryArgs
    /\ fs \in {<<>>, TitleCorpus}
    /\ Idle

\* .action: userQuery, the ValidationError, targetDir
CmdParse ==
    /\ pc = "start"
    /\ IF Join(Tail(args), <<" ">>) = <<>>
       THEN Throw("query is required") /\ dir' = dir
       ELSE dir' = targetDirOf(Head(args)) /\ pc' = "index" /\ err' = err
    /\ UNCHANGED <<args, fs, index, response, paths, docs, selectorCalls,
                   answerCalls, answerDocs, rendered, costIn, cost,
                   outlineIn, outline>>
    /\ UNCHANGED <<asyncVars, queryVars>>

\* const index = await getIndex(targetDir); indexXml for the prompt
CmdGetIndex ==
    /\ pc = "index"
    /\ index' = getIndexAgent(fs)
    /\ outline' = Join([k \in 1..Len(fs) |-> outlineXml(getIndexAgent(fs)[k], dir)],
                       <<"\n">>)
    /\ pc' = "query"
    /\ UNCHANGED <<args, dir, fs, response, paths, docs, err, selectorCalls,
                   answerCalls, answerDocs, rendered, costIn, cost, outlineIn>>
    /\ UNCHANGED <<asyncVars, queryVars>>

\* runQuery is entered: the locals are initialised and query() is started
QueryStart ==
    /\ pc = "query"
    /\ inflight' = inflight \cup {"agent"}
    /\ events' = <<>>
    /\ finalAnswer' = <<>>
    /\ tokens' = NoTokens
    /\ pc' = "consuming"
    /\ UNCHANGED <<args, dir, fs, index, response, paths, docs, err,
                   selectorCalls, answerCalls, answerDocs, rendered, costIn,
                   cost, outlineIn, outline, rendering, shown>>

\* one turn of the for await loop
ConsumeEvent ==
    /\ pc = "consuming"
    /\ Len(events) < MaxEvents
    /\ \E event \in EventMenu :
          /\ events' = Append(events, event)
          /\ finalAnswer' = stepAnswer(finalAnswer, event)
          /\ tokens' = stepTokens(tokens, event)
    /\ UNCHANGED <<args, dir, fs, pc, index, response, paths, docs, err,
                   selectorCalls, answerCalls, answerDocs, rendered, costIn,
                   cost, outlineIn, outline>>
    /\ UNCHANGED asyncVars

\* the stream rejects: runQuery throws out of the loop
QueryFails ==
    /\ pc = "consuming"
    /\ inflight' = {}
    /\ Throw("QueryError")
    /\ UNCHANGED <<args, dir, fs, index, response, paths, docs, selectorCalls,
                   answerCalls, answerDocs, rendered, costIn, cost,
                   outlineIn, outline, rendering, shown>>
    /\ UNCHANGED queryVars

\* the stream ends: the usage summary, then return finalAnswer
QueryReturn ==
    /\ pc = "consuming"
    /\ inflight' = {}
    /\ cost' = IF tokens # NoTokens THEN totalCost(tokens) ELSE cost
    /\ response' = finalAnswer
    /\ pc' = "render"
    /\ UNCHANGED <<args, dir, fs, index, paths, docs, err, selectorCalls,
                   answerCalls, answerDocs, rendered, costIn, outlineIn,
                   outline, rendering, shown>>
    /\ UNCHANGED queryVars

\* await renderMd('---\n\n' + answer)
CmdRender ==
    /\ pc = "render"
    /\ rendered' = Append(rendered, [title |-> "answer", bullets |-> <<response>>])
    /\ \E glow \in BOOLEAN : renderMd("answer", glow)
    /\ pc' = "awaitRender"
    /\ UNCHANGED <<args, dir, fs, index, response, paths, docs, err,
                   selectorCalls, answerCalls, answerDocs, costIn, cost,
                   outlineIn, outline, inflight>>
    /\ UNCHANGED queryVars

\* the awaited renderMd has settled
CmdDone ==
    /\ pc = "awaitRender"
    /\ rendering = {}
    /\ pc' = "done"
    /\ UNCHANGED <<args, dir, fs, index, response, paths, docs, err,
                   selectorCalls, answerCalls, answerDocs, rendered, costIn,
                   cost, outlineIn, outline>>
    /\ UNCHANGED <<asyncVars, queryVars>>

NextQuery ==
    \/ CmdParse
    \/ CmdGetIndex
    \/ IndexFails
    \/ QueryStart
    \/ ConsumeEvent
    \/ QueryFails
    \/ QueryReturn
    \/ CmdRender
    \/ GlowExit
    \/ CmdDone

SpecQuery == InitQuery /\ [][NextQuery]_vars

\* a 'result' event with a result field
IsResultWithField(e) == e.type = "result" /\ "result" \in DOMAIN e

\* the text blocks of an assistant event, in order
TextBlocksOf(e) ==
    IF e.type = "assistant" /\ "message" \in DOMAIN e /\ "content" \in DOMAIN e.message
    THEN LET IsText(b) == b.type = "text" IN SelectSeq(e.message.content, IsText)
    ELSE <<>>

\* an 'assistant' event whose first text block is non-empty
IsTextBearing(e) ==
    /\ TextBlocksOf(e) # <<>>
    /\ "text" \in DOMAIN TextBlocksOf(e)[1]
    /\ TextBlocksOf(e)[1].text # <<>>

CarriedText(e) == IF IsResultWithField(e) THEN e.result ELSE TextBlocksOf(e)[1].text

Qualifying(es) == {i \in 1..Len(es) : IsResultWithField(es[i]) \/ IsTextBearing(es[i])}

LastOf(S) == CHOOSE i \in S : \A j \in S : j <= i

runQueryReturned == pc \in {"render", "awaitRender", "done"}

\* C17: after consuming a finite event stream runQuery returns the text of the
\* last event that is a 'result' event with a result field or an 'assistant'
\* event whose first text block is non-empty, and '' if there is none; so the
\* final result text is returned only when no text-bearing assistant event
\* comes after it.
C17_LastQualifyingEventWins ==
    runQueryReturned =>
        /\ response = finalAnswer
        /\ IF Qualifying(events) = {} THEN response = <<>>
           ELSE response = CarriedText(events[LastOf(Qualifying(events))])
        /\ \A i \in 1..Len(events) :
              (/\ IsResultWithField(events[i])
               /\ \A j \in (i + 1)..Len(events) : ~IsResultWithField(events[j])
               /\ \E j \in (i + 1)..Len(events) : IsTextBearing(events[j]))
              => response = CarriedText(events[LastOf(
                     {j \in (i + 1)..Len(events) : IsTextBearing(events[j])})])

\* a text-bearing assistant event after the final result event took over, and
\* an assistant event with an empty first text block after it changed nothing
C17_Witness ==
    /\ pc = "done"
    /\ events = << [type |-> "result", result |-> T_R, usage |-> U_full],
                   Assistant(<<ToolBlock, TextBlock(T_B)>>),
                   Assistant(<<TextBlock(<<>>), TextBlock(T_C)>>) >>
    /\ response = T_B

====
